---- MODULE Spec2Model ----
(***************************************************************************)
(* State-machine model of skyplane's GatewayReceiver                       *)
(* (src/skyplane/broadcast/gateway/operators/gateway_receiver.py).         *)
(*                                                                         *)
(* One controller thread calls start_server / stop_server / stop_servers. *)
(* Every start_server forks one worker process running server_worker,     *)
(* which binds a port, accepts one connection and runs recv_chunks on it. *)
(* A peer per connection sends headers and payload bytes and may close at *)
(* any time.  The chunk store is a map from chunk id to file contents.    *)
(* A further specification lets several threads call start_server at the  *)
(* same time.                                                              *)
(***************************************************************************)
EXTENDS Integers, Sequences, FiniteSets, TLC

\* ---------------------------------------------------------------- bounds
MaxWorkers == 2     \* start_server calls (worker ids 0 .. MaxWorkers-1)
MaxCalls == 3       \* public operations issued by the controller
MaxChunks == 1      \* headers sent by all peers together
MaxLeft == 1        \* largest n_chunks_left_on_socket opening a batch
MaxLen == 2         \* largest data_len a peer declares
MaxSamples == 3     \* profiling samples queued per worker
recv_block_size == 2   \* self.recv_block_size, in bytes (4 MiB by default)
MaxBacklog == 1     \* further connections queued on a listening socket

\* ------------------------------------------------------------- variables
VARIABLES
    server_processes,           \* self.server_processes: sequence of worker ids
    server_ports,               \* self.server_ports: sequence of ports
    next_gateway_worker_id,     \* self.next_gateway_worker_id
    error_event,                \* self.error_event (shared Event)
    error_queue,                \* self.error_queue (shared Queue)
    socket_profiler_event_queue,\* self.socket_profiler_event_queue, per producer
    started_event,              \* start_server's started_event, per worker
    port_value,                 \* start_server's port_value, per worker
    proc,                       \* OS state of each worker process
    worker,                     \* private state of each worker process
    net,                        \* peer and bytes in flight, per connection
    file,                       \* chunk store: chunk id -> file contents
    ctl,                        \* the controller thread: position and call frame
    ret                         \* outcome of the last completed public call

vars == <<server_processes, server_ports, next_gateway_worker_id, error_event,
          error_queue, socket_profiler_event_queue, started_event, port_value,
          proc, worker, net, file, ctl, ret>>

W == 0 .. (MaxWorkers - 1)
Ports == 1 .. MaxWorkers
\* Chunk ids: 1 .. MaxChunks for the chunks of PeerSendChunk, and two more
\* ids per connection for the chunks of PeerSendWhole and PeerSendBatch.
ChunkIds == 1 .. (MaxChunks + 2 * MaxWorkers)
\* The largest data_len in a batch of PeerSendBatch: one byte more than a
\* read can ask for.
MaxBatchLen == recv_block_size + 1

NoFile == <<-1>>
NoProc == -1

\* ------------------------------------------------------- pure operators
Min(a, b) == IF a < b THEN a ELSE b

\* bytearray(n): n zero bytes
ZeroBuffer(n) == [i \in 1 .. n |-> 0]

\* The payload a peer sends for a chunk of n bytes: n, n-1, .., 1.
Payload(n) == [i \in 1 .. n |-> n - i + 1]

\* The values of the first k items of a stream, as recv_into stores them: a
\* payload byte is its value; recv_into knows nothing of the framing, so an
\* item of a header is taken like any other byte (shown as -1).
Bytes(s, k) == [i \in 1 .. k |-> IF s[i].kind = "byte" THEN s[i].v ELSE -1]

\* Drop the first k items of a sequence.
Drop(s, k) == SubSeq(s, k + 1, Len(s))

\* Mutant of Remove: every occurrence of x is removed.
RemoveAll(s, x) == SelectSeq(s, LAMBDA y : y # x)

\* list.remove(x): remove the first occurrence of x.
RECURSIVE Remove(_, _)
Remove(s, x) ==
    IF s = <<>> THEN <<>>
    ELSE IF Head(s) = x THEN Tail(s)
    ELSE <<Head(s)>> \o Remove(Tail(s), x)

\* memoryview(to_write)[at:] filled with data by recv_into.
RecvIntoView(buf, at, data) ==
    [i \in 1 .. Len(buf) |->
        IF i > at /\ i <= at + Len(data) THEN data[i - at] ELSE buf[i]]

\* Ports bound by a socket of a live worker process.
BoundPorts == {worker[w].sock : w \in {x \in W : proc[x] = "running"}} \ {0}

\* Mutant of Match: the comparison with `port` is left out, so the first
\* registered process always matches.
MatchIgnoringPort(ports, procs, port) ==
    IF ports = <<>> \/ procs = <<>> THEN NoProc ELSE Head(procs)

\* stop_server lines 114-118: first process whose port equals `port`.
RECURSIVE Match(_, _, _)
Match(ports, procs, port) ==
    IF ports = <<>> \/ procs = <<>> THEN NoProc
    ELSE IF Head(ports) = port THEN Head(procs)
    ELSE Match(Tail(ports), Tail(procs), port)

\* Name lookups in recv_chunks: `fpath` (line 192) and `init_space` (line 199)
\* are bound nowhere in the function, the class or the module.
\* Mutant of fpath_defined: line 192 finds the chunk's file path.
fpath_bound == TRUE
fpath_defined == FALSE
\* Mutant of init_space_defined: line 199 finds the store's total space.
init_space_bound == TRUE
init_space_defined == FALSE

NoHeader == [chunk_id |-> 0, data_len |-> 0, n_chunks_left_on_socket |-> 0]

\* A worker process's private state: its position pc, the port its socket is
\* bound to (0: none), whether signal_handler is installed, exit_flag, the
\* accepted connection, recv_chunks' locals, and the exception in flight.
InitWorker ==
    [pc |-> "unborn", sock |-> 0, handler |-> FALSE, exit_flag |-> FALSE,
     conn |-> "none", chunk_header |-> NoHeader, socket_data_len |-> 0,
     chunk_received_size |-> 0, to_write |-> <<>>, chunks_received |-> <<>>,
     exc |-> "none"]

\* A connection seen from the peer: the peer's state, the items in flight to
\* the worker (headers and payload bytes, in order), the payload bytes of the
\* current chunk not yet sent, the last n_chunks_left_on_socket sent, the
\* number of headers sent, and the number of further connections to the
\* worker's port that wait in the listen queue.
InitNet ==
    [peer |-> "none", stream |-> <<>>, rem |-> 0, left |-> 0, sent |-> 0,
     backlog |-> 0]

\* Headers sent so far by all peers; the next chunk id is one more.
RECURSIVE SentUpTo(_)
SentUpTo(w) == IF w < 0 THEN 0 ELSE net[w].sent + SentUpTo(w - 1)
TotalSent == SentUpTo(MaxWorkers - 1)

\* The frame of a thread that calls start_server concurrently with others:
\* its position, its local gateway_id and the value it returned.
InitThread == [pc |-> "idle", gateway_id |-> NoProc, res |-> 0]

\* The controller's call frame.  pc is its position, op the public operation
\* in progress, matched/port stop_server's matched_process and port, idx the
\* index of stop_servers' list iterator, ncalls the number of public calls
\* begun.  at_call (the registry when the call began), stopped (the
\* processes sent SIGINT during the call) and sigterm (those sent SIGTERM
\* during the call) record the call's history.  threads holds the frames of
\* the threads that call start_server concurrently.
InitCtl ==
    [pc |-> "idle", op |-> "none", matched |-> NoProc, port |-> 0, idx |-> 0,
     ncalls |-> 0, at_call |-> <<>>, stopped |-> {}, sigterm |-> {},
     threads |-> [t \in W |-> InitThread]]

Init ==
    /\ server_processes = <<>>
    /\ server_ports = <<>>
    /\ next_gateway_worker_id = 0
    /\ error_event = FALSE
    /\ error_queue = <<>>
    /\ socket_profiler_event_queue = [w \in W |-> <<>>]
    /\ started_event = [w \in W |-> FALSE]
    /\ port_value = [w \in W |-> 0]
    /\ proc = [w \in W |-> "unborn"]
    /\ worker = [w \in W |-> InitWorker]
    /\ net = [w \in W |-> InitNet]
    /\ file = [c \in ChunkIds |-> NoFile]
    /\ ctl = InitCtl
    /\ ret = [op |-> "none", arg |-> 0, res |-> "none", n |-> 0]

\* ------------------------------------------------ worker: server_worker
Running(w) == proc[w] = "running"

\* A process that has ended: its memory is gone, its sockets are closed (the
\* accepted connection too, if there was one) and the bytes still in flight
\* to it are dropped.  `how` is "done" (returned) or "killed" (by a signal).
Ended(wk, how) ==
    [InitWorker EXCEPT !.pc = how,
                       !.conn = IF wk.conn = "none" THEN "none" ELSE "closed"]
Dropped(n) ==
    [n EXCEPT !.stream = <<>>, !.rem = 0, !.left = 0, !.backlog = 0,
              !.peer = IF @ = "none" THEN "none" ELSE "closed"]

\* Lines 72-75: create the socket, bind port 0, publish the assigned port.
Bind(w) ==
    /\ Running(w) /\ worker[w].pc = "bind"
    /\ \E p \in Ports \ BoundPorts :
          /\ worker' = [worker EXCEPT ![w].sock = p, ![w].pc = "handler"]
          /\ port_value' = [port_value EXCEPT ![w] = p]
    /\ UNCHANGED <<server_processes, server_ports, next_gateway_worker_id,
                   error_event, error_queue, socket_profiler_event_queue,
                   started_event, proc, net, file, ctl, ret>>

\* Mutant of InstallHandler: signal.signal (line 81) is left out.
InstallHandlerSkipped(w) ==
    /\ Running(w) /\ worker[w].pc = "handler"
    /\ worker' = [worker EXCEPT ![w].exit_flag = FALSE, ![w].pc = "listen"]
    /\ UNCHANGED <<server_processes, server_ports, next_gateway_worker_id,
                   error_event, error_queue, socket_profiler_event_queue,
                   started_event, port_value, proc, net, file, ctl, ret>>

\* Lines 76-81: exit_flag = Event(); install signal_handler for SIGINT.
InstallHandler(w) ==
    /\ Running(w) /\ worker[w].pc = "handler"
    /\ worker' = [worker EXCEPT ![w].exit_flag = FALSE, ![w].handler = TRUE,
                                ![w].pc = "listen"]
    /\ UNCHANGED <<server_processes, server_ports, next_gateway_worker_id,
                   error_event, error_queue, socket_profiler_event_queue,
                   started_event, port_value, proc, net, file, ctl, ret>>

\* Lines 83-89: listen, wrap in TLS, started_event.set().
Listen(w) ==
    /\ Running(w) /\ worker[w].pc = "listen"
    /\ started_event' = [started_event EXCEPT ![w] = TRUE]
    /\ worker' = [worker EXCEPT ![w].pc = "accept"]
    /\ UNCHANGED <<server_processes, server_ports, next_gateway_worker_id,
                   error_event, error_queue, socket_profiler_event_queue,
                   port_value, proc, net, file, ctl, ret>>

\* Lines 72-87 raising: socket(), bind(), listen() or wrap_socket() fails (no
\* port or descriptor left, a TLS set-up error).  The exception is raised
\* outside the try of lines 93-99: `with closing(sock)` closes the socket
\* and the process ends, started_event not having been set.
StartupFails(w) ==
    /\ Running(w) /\ worker[w].pc \in {"bind", "listen"}
    /\ worker' = [worker EXCEPT ![w] = Ended(@, "failed")]
    /\ net' = [net EXCEPT ![w] = Dropped(@)]
    /\ proc' = [proc EXCEPT ![w] = "zombie"]
    /\ UNCHANGED <<server_processes, server_ports, next_gateway_worker_id,
                   error_event, error_queue, socket_profiler_event_queue,
                   started_event, port_value, file, ctl, ret>>

\* Lines 90-91: accept() returns once a peer has connected.
Accept(w) ==
    /\ Running(w) /\ worker[w].pc = "accept"
    /\ net[w].peer # "none"
    /\ worker' = [worker EXCEPT ![w].conn = "open", ![w].pc = "loop"]
    /\ UNCHANGED <<server_processes, server_ports, next_gateway_worker_id,
                   error_event, error_queue, socket_profiler_event_queue,
                   started_event, port_value, proc, net, file, ctl, ret>>

\* Mutant of LoopCondition: error_event is not tested.
LoopConditionIgnoresFault(exit_flag, err_event) == ~exit_flag

\* Line 92: the condition of the worker's while loop.
LoopCondition(exit_flag, err_event) == ~exit_flag /\ ~err_event

\* Mutant of LoopTest: a worker that leaves its loop clears error_event.
LoopTestClears(w) ==
    /\ Running(w) /\ worker[w].pc = "loop"
    /\ worker' = [worker EXCEPT
          ![w].pc = IF LoopCondition(worker[w].exit_flag, error_event)
                    THEN "recv_header" ELSE "close",
          ![w].chunks_received =
                    IF LoopCondition(worker[w].exit_flag, error_event)
                    THEN <<>> ELSE @]
    /\ error_event' = (error_event
                          /\ LoopCondition(worker[w].exit_flag, error_event))
    /\ UNCHANGED <<server_processes, server_ports, next_gateway_worker_id,
                   error_queue, socket_profiler_event_queue,
                   started_event, port_value, proc, net, file, ctl, ret>>

\* Lines 92-94 and 140-141: test the loop condition; enter recv_chunks with an
\* empty chunks_received, or leave the loop.
LoopTest(w) ==
    /\ Running(w) /\ worker[w].pc = "loop"
    /\ worker' = [worker EXCEPT
          ![w].pc = IF LoopCondition(worker[w].exit_flag, error_event)
                    THEN "recv_header" ELSE "close",
          ![w].chunks_received =
                    IF LoopCondition(worker[w].exit_flag, error_event)
                    THEN <<>> ELSE @]
    /\ UNCHANGED <<server_processes, server_ports, next_gateway_worker_id,
                   error_event, error_queue, socket_profiler_event_queue,
                   started_event, port_value, proc, net, file, ctl, ret>>

\* WireProtocolHeader.from_socket (skyplane.chunk): blocks until a whole header
\* has been read; fails when the stream closes first.
HeaderReady(w) == net[w].stream # <<>> /\ Head(net[w].stream).kind = "hdr"
HeaderFails(w) == net[w].stream = <<>> /\ net[w].peer = "closed"
FromSocket(w) ==
    [chunk_id |-> Head(net[w].stream).chunk_id,
     data_len |-> Head(net[w].stream).data_len,
     n_chunks_left_on_socket |-> Head(net[w].stream).n_chunks_left_on_socket]

\* Lines 143-169: read the next header, open the chunk file for writing
\* (truncating it), set up the receive buffer.
RecvHeader(w) ==
    /\ Running(w) /\ worker[w].pc = "recv_header"
    /\ \/ /\ HeaderReady(w)
          /\ LET h == FromSocket(w) IN
             /\ worker' = [worker EXCEPT
                   ![w].chunk_header = h,
                   ![w].socket_data_len = h.data_len,
                   ![w].chunk_received_size = 0,
                   ![w].to_write = ZeroBuffer(h.data_len),
                   ![w].pc = "recv_payload"]
             /\ file' = [file EXCEPT ![h.chunk_id] = <<>>]
             /\ net' = [net EXCEPT ![w].stream = Tail(@)]
       \/ /\ HeaderFails(w)
          /\ worker' = [worker EXCEPT ![w].exc = "HeaderError", ![w].pc = "except"]
          /\ UNCHANGED <<file, net>>
    /\ UNCHANGED <<server_processes, server_ports, next_gateway_worker_id,
                   error_event, error_queue, socket_profiler_event_queue,
                   started_event, port_value, proc, ctl, ret>>

\* Mutant of RecvRequest: every read asks for a whole block, whatever is
\* missing of the chunk.
RecvRequestWholeBlock(socket_data_len) == recv_block_size

\* Line 171: the byte count asked of conn.recv_into.
RecvRequest(socket_data_len) == Min(socket_data_len, recv_block_size)

\* Mutant of Sample: the sample carries at most a block's worth of bytes, the
\* size of a read instead of the running total.
SampleOfRead(w, chunk_id, received) ==
    [receiver_id |-> w, chunk_id |-> chunk_id,
     bytes |-> Min(received, recv_block_size)]

\* Lines 174-181: the profiling sample put after a read.
Sample(w, chunk_id, received) ==
    [receiver_id |-> w, chunk_id |-> chunk_id, bytes |-> received]

\* Lines 170-181: one iteration of the payload loop.  recv_into returns
\* between 1 and the requested number of bytes, taken from the head of the
\* stream whatever they are, or 0 at end of stream.
RecvInto(w) ==
    /\ Running(w) /\ worker[w].pc = "recv_payload"
    /\ worker[w].socket_data_len > 0
    /\ Len(socket_profiler_event_queue[w]) < MaxSamples
    /\ LET avail == Len(net[w].stream)
           req == RecvRequest(worker[w].socket_data_len)
       IN  /\ avail > 0 \/ (net[w].stream = <<>> /\ net[w].peer = "closed")
           /\ \E nbytes \in (IF avail > 0 THEN 1 .. Min(req, avail) ELSE {0}) :
                /\ worker' = [worker EXCEPT
                      ![w].to_write = RecvIntoView(@, worker[w].chunk_received_size,
                                                   Bytes(net[w].stream, nbytes)),
                      ![w].socket_data_len = @ - nbytes,
                      ![w].chunk_received_size = @ + nbytes]
                /\ net' = [net EXCEPT ![w].stream = Drop(@, nbytes)]
                /\ socket_profiler_event_queue' =
                      [socket_profiler_event_queue EXCEPT ![w] =
                          Append(@, Sample(w, worker[w].chunk_header.chunk_id,
                                           worker[w].chunk_received_size + nbytes))]
    /\ UNCHANGED <<server_processes, server_ports, next_gateway_worker_id,
                   error_event, error_queue, started_event, port_value, proc,
                   file, ctl, ret>>

\* Mutant of EndPayload: the payload loop may end whatever is still missing.
EndPayloadEarly(w) ==
    /\ Running(w) /\ worker[w].pc = "recv_payload"
    /\ worker' = [worker EXCEPT ![w].pc = "write"]
    /\ UNCHANGED <<server_processes, server_ports, next_gateway_worker_id,
                   error_event, error_queue, socket_profiler_event_queue,
                   started_event, port_value, proc, net, file, ctl, ret>>

\* Lines 170 and 182: the payload loop ends when socket_data_len reaches 0.
EndPayload(w) ==
    /\ Running(w) /\ worker[w].pc = "recv_payload"
    /\ ~(worker[w].socket_data_len > 0)
    /\ worker' = [worker EXCEPT ![w].pc = "write"]
    /\ UNCHANGED <<server_processes, server_ports, next_gateway_worker_id,
                   error_event, error_queue, socket_profiler_event_queue,
                   started_event, port_value, proc, net, file, ctl, ret>>

\* f.seek(0, 0); f.write(data): data replaces the file's first Len(data) bytes.
Overwrite(old, data) ==
    data \o (IF Len(old) > Len(data) THEN SubSeq(old, Len(data) + 1, Len(old))
             ELSE <<>>)

\* Lines 204-206: the assertion after the write loop.
SizeAssertion(socket_data_len, chunk_received_size, data_len) ==
    socket_data_len = 0 /\ chunk_received_size = data_len

\* self.max_pending_chunks (1 by default).
max_pending_chunks == 1

\* The values self.chunk_store.remaining_bytes() can take: the number of
\* bytes the store has room for.
RemainingBytes == 0 .. MaxBatchLen

\* Lines 185-214: one pass of the write loop and, when it breaks, the rest of
\* the chunk's handling, the store having room for `remaining` bytes.
\* `wrote` is the number of bytes f.write puts in the file: all of them, or
\* fewer when the write raises (store out of space).
WriteAttemptWith(w, remaining) ==
    /\ Running(w) /\ worker[w].pc = "write"
    /\ LET wrote == Min(Len(worker[w].to_write), remaining) IN
        LET h == worker[w].chunk_header
            data == worker[w].to_write
            write_raised == wrote < Len(data)
            file1 == Overwrite(file[h.chunk_id], SubSeq(data, 1, wrote))
            \* line 192: os.path.getsize(fpath)
            getsize_raised == ~write_raised /\ ~fpath_defined
            break == ~write_raised /\ ~getsize_raised /\ Len(file1) = h.data_len
            \* line 203: a second f.write(to_write) at the current position
            file2 == file1 \o data
        IN
        IF break
        THEN /\ file' = [file EXCEPT ![h.chunk_id] = file2]
             /\ IF SizeAssertion(worker[w].socket_data_len,
                                 worker[w].chunk_received_size, h.data_len)
                THEN worker' = [worker EXCEPT
                        ![w].chunks_received = Append(@, h.chunk_id),
                        ![w].pc = IF h.n_chunks_left_on_socket = 0
                                  THEN "loop" ELSE "recv_header"]
                ELSE worker' = [worker EXCEPT ![w].exc = "AssertionError",
                                              ![w].pc = "except"]
        ELSE /\ file' = [file EXCEPT ![h.chunk_id] = file1]
             \* lines 198-201: print(... {init_space}); time.sleep(1)
             /\ IF init_space_defined
                THEN worker' = worker
                ELSE worker' = [worker EXCEPT ![w].exc = "NameError",
                                              ![w].pc = "except"]
    /\ UNCHANGED <<server_processes, server_ports, next_gateway_worker_id,
                   error_event, error_queue, socket_profiler_event_queue,
                   started_event, port_value, proc, net, ctl, ret>>

\* A pass of the write loop, whatever room the store has.
WriteAttempt(w) == \E remaining \in RemainingBytes : WriteAttemptWith(w, remaining)

\* The capacity of the chunk store, in bytes: any one chunk fits.
StoreCapacity == MaxLen

\* The bytes the store holds: the sizes of its chunk files together.
RECURSIVE FileBytes(_)
FileBytes(c) ==
    IF c = 0 THEN 0
    ELSE (IF file[c] = NoFile THEN 0 ELSE Len(file[c])) + FileBytes(c - 1)
StoreUsed == FileBytes(MaxChunks + 2 * MaxWorkers)

\* self.chunk_store.remaining_bytes(): the room left in the store.
remaining_bytes == StoreCapacity - StoreUsed

\* A pass of the write loop on a store shared by all workers: f.write finds
\* the room the other chunk files leave.
StoreWrite(w) == WriteAttemptWith(w, remaining_bytes)

\* Line 97: the entry put on the error queue, traceback.format_exc().
ErrorEntry(w) == worker[w].exc

\* Mutant of ExceptPut: nothing is put on the error queue (line 97 left out).
ExceptPutNothing(w) ==
    /\ Running(w) /\ worker[w].pc = "except"
    /\ error_queue' = error_queue
    /\ worker' = [worker EXCEPT ![w].pc = "except_set"]
    /\ UNCHANGED <<server_processes, server_ports, next_gateway_worker_id,
                   error_event, socket_profiler_event_queue, started_event,
                   port_value, proc, net, file, ctl, ret>>

\* Lines 95-97: the exception handler logs and reports the error.
ExceptPut(w) ==
    /\ Running(w) /\ worker[w].pc = "except"
    /\ error_queue' = Append(error_queue, ErrorEntry(w))
    /\ worker' = [worker EXCEPT ![w].pc = "except_set"]
    /\ UNCHANGED <<server_processes, server_ports, next_gateway_worker_id,
                   error_event, socket_profiler_event_queue, started_event,
                   port_value, proc, net, file, ctl, ret>>

\* Mutant of ExceptSet: self.error_event.set() is left out.
ExceptSetNoEvent(w) ==
    /\ Running(w) /\ worker[w].pc = "except_set"
    /\ worker' = [worker EXCEPT ![w].exit_flag = TRUE, ![w].pc = "loop"]
    /\ UNCHANGED <<server_processes, server_ports, next_gateway_worker_id,
                   error_event, error_queue, socket_profiler_event_queue,
                   started_event, port_value, proc, net, file, ctl, ret>>

\* Lines 98-99: exit_flag.set(); self.error_event.set().
ExceptSet(w) ==
    /\ Running(w) /\ worker[w].pc = "except_set"
    /\ error_event' = TRUE
    /\ worker' = [worker EXCEPT ![w].exit_flag = TRUE, ![w].pc = "loop"]
    /\ UNCHANGED <<server_processes, server_ports, next_gateway_worker_id,
                   error_queue, socket_profiler_event_queue, started_event,
                   port_value, proc, net, file, ctl, ret>>

\* Mutant of Close: a worker that leaves its loop with a connection waiting
\* in the listen queue accepts it and serves it.
CloseThenAcceptNext(w) ==
    /\ Running(w) /\ worker[w].pc = "close"
    /\ IF net[w].backlog > 0
       THEN /\ worker' = [worker EXCEPT ![w].pc = "accept", ![w].exc = "none",
                                         ![w].exit_flag = FALSE]
            /\ net' = [net EXCEPT ![w] = [InitNet EXCEPT
                                            !.peer = "connected",
                                            !.sent = net[w].sent,
                                            !.backlog = net[w].backlog - 1]]
            /\ proc' = proc
       ELSE /\ worker' = [worker EXCEPT ![w] = Ended(@, "done")]
            /\ net' = [net EXCEPT ![w] = Dropped(@)]
            /\ proc' = [proc EXCEPT ![w] = "zombie"]
    /\ UNCHANGED <<server_processes, server_ports, next_gateway_worker_id,
                   error_event, error_queue, socket_profiler_event_queue,
                   started_event, port_value, file, ctl, ret>>

\* Lines 100-101 and the end of `with closing(sock)`: close the connection and
\* the listening socket; the process exits.
Close(w) ==
    /\ Running(w) /\ worker[w].pc = "close"
    /\ worker' = [worker EXCEPT ![w] = Ended(@, "done")]
    /\ net' = [net EXCEPT ![w] = Dropped(@)]
    /\ proc' = [proc EXCEPT ![w] = "zombie"]
    /\ UNCHANGED <<server_processes, server_ports, next_gateway_worker_id,
                   error_event, error_queue, socket_profiler_event_queue,
                   started_event, port_value, file, ctl, ret>>

\* ------------------------------------------------------------ the peers
\* A peer connects to a listening worker, whose port it has learnt from
\* start_server's return value.
PeerConnect(w) ==
    /\ Running(w) /\ worker[w].pc = "accept" /\ net[w].peer = "none"
    /\ ~(ctl.pc = "start_wait" /\ ctl.matched = w)
    /\ net' = [net EXCEPT ![w].peer = "connected"]
    /\ UNCHANGED <<server_processes, server_ports, next_gateway_worker_id,
                   error_event, error_queue, socket_profiler_event_queue,
                   started_event, port_value, proc, worker, file, ctl, ret>>

\* Worker w's socket is listening (line 83 has run, the socket is open).
Listening(w) ==
    Running(w) /\ worker[w].pc \notin {"unborn", "bind", "handler", "listen"}

\* Another peer connects to the port of a worker that has a connection
\* already: the connection is set up by the OS and waits in the listen queue
\* for an accept() call.
PeerConnectAgain(w) ==
    /\ Listening(w) /\ net[w].peer # "none"
    /\ net[w].backlog < MaxBacklog
    /\ net' = [net EXCEPT ![w].backlog = @ + 1]
    /\ UNCHANGED <<server_processes, server_ports, next_gateway_worker_id,
                   error_event, error_queue, socket_profiler_event_queue,
                   started_event, port_value, proc, worker, file, ctl, ret>>

\* The peer sends its next chunk: a header with a fresh chunk id, any length
\* and a count of chunks left that runs down to 0 within a batch, then the
\* first `n` bytes of the payload.  With n < data_len the peer has stalled in
\* the middle of the payload.
PeerSendChunk(w) ==
    /\ Running(w) /\ net[w].peer = "connected" /\ net[w].rem = 0
    /\ TotalSent < MaxChunks
    /\ \E len \in 0 .. MaxLen : \E n \in 0 .. len :
       \E left \in (IF net[w].left > 0 THEN {net[w].left - 1} ELSE 0 .. MaxLeft) :
          net' = [net EXCEPT
             ![w].stream = @ \o <<[kind |-> "hdr", chunk_id |-> TotalSent + 1,
                                    data_len |-> len,
                                    n_chunks_left_on_socket |-> left]>>
                             \o [i \in 1 .. n |->
                                    [kind |-> "byte", v |-> Payload(len)[i]]],
             ![w].rem = len - n, ![w].left = left, ![w].sent = @ + 1]
    /\ UNCHANGED <<server_processes, server_ports, next_gateway_worker_id,
                   error_event, error_queue, socket_profiler_event_queue,
                   started_event, port_value, proc, worker, file, ctl, ret>>

\* The peer sends the one chunk of its connection whole: a header with the
\* connection's own chunk id, a length of at least one byte and no chunk left
\* on the socket, then all the payload.
PeerSendWhole(w) ==
    /\ Running(w) /\ net[w].peer = "connected" /\ net[w].sent = 0
    /\ \E len \in 1 .. MaxLen :
          net' = [net EXCEPT
             ![w].stream = @ \o <<[kind |-> "hdr", chunk_id |-> MaxChunks + 2 * w + 1,
                                    data_len |-> len,
                                    n_chunks_left_on_socket |-> 0]>>
                             \o [i \in 1 .. len |->
                                    [kind |-> "byte", v |-> Payload(len)[i]]],
             ![w].rem = 0, ![w].left = 0, ![w].sent = @ + 1]
    /\ UNCHANGED <<server_processes, server_ports, next_gateway_worker_id,
                   error_event, error_queue, socket_profiler_event_queue,
                   started_event, port_value, proc, worker, file, ctl, ret>>

\* The peer sends a batch of two chunks back to back: the first chunk's
\* header and all its payload, then at once the header of the second chunk,
\* whose payload it has yet to send.
PeerSendBatch(w) ==
    /\ Running(w) /\ net[w].peer = "connected" /\ net[w].sent = 0
    /\ \E len \in 0 .. MaxBatchLen :
          net' = [net EXCEPT
             ![w].stream = @ \o <<[kind |-> "hdr", chunk_id |-> MaxChunks + 2 * w + 1,
                                    data_len |-> len,
                                    n_chunks_left_on_socket |-> 1]>>
                             \o [i \in 1 .. len |->
                                    [kind |-> "byte", v |-> Payload(len)[i]]]
                             \o <<[kind |-> "hdr", chunk_id |-> MaxChunks + 2 * w + 2,
                                    data_len |-> len,
                                    n_chunks_left_on_socket |-> 0]>>,
             ![w].rem = len, ![w].left = 0, ![w].sent = @ + 2]
    /\ UNCHANGED <<server_processes, server_ports, next_gateway_worker_id,
                   error_event, error_queue, socket_profiler_event_queue,
                   started_event, port_value, proc, worker, file, ctl, ret>>

\* The peer closes its end of the connection, at any point of the stream.
PeerClose(w) ==
    /\ Running(w) /\ net[w].peer = "connected"
    /\ net' = [net EXCEPT ![w].peer = "closed"]
    /\ UNCHANGED <<server_processes, server_ports, next_gateway_worker_id,
                   error_event, error_queue, socket_profiler_event_queue,
                   started_event, port_value, proc, worker, file, ctl, ret>>

\* ------------------------------------------- controller: GatewayReceiver
\* The call frame of a public operation that starts now.
Begin(op) ==
    [ctl EXCEPT !.op = op, !.ncalls = @ + 1, !.idx = 0, !.stopped = {},
                !.sigterm = {}, !.at_call = server_processes]

\* A public call returns or raises from frame c: record the outcome.
Return(c, arg, res) ==
    /\ ret' = [op |-> c.op, arg |-> arg, res |-> res, n |-> c.ncalls]
    /\ ctl' = [c EXCEPT !.pc = "idle", !.op = "none", !.matched = NoProc,
                        !.port = 0, !.idx = 0]

\* Process.start() polls every child (multiprocessing's _cleanup): children
\* that have exited are reaped, after which their pid no longer exists.
Cleanup(p) == [w \in W |-> IF p[w] = "zombie" THEN "reaped" ELSE p[w]]

\* Lines 67-68 and 103-106: take a worker id, fork the worker process.
StartServer ==
    /\ ctl.pc = "idle" /\ ctl.ncalls < MaxCalls
    /\ next_gateway_worker_id < MaxWorkers
    /\ LET gateway_id == next_gateway_worker_id IN
       /\ next_gateway_worker_id' = gateway_id + 1
       /\ proc' = [Cleanup(proc) EXCEPT ![gateway_id] = "running"]
       /\ worker' = [worker EXCEPT ![gateway_id].pc = "bind"]
       /\ ctl' = [Begin("start_server") EXCEPT !.pc = "start_wait",
                                               !.matched = gateway_id]
    /\ UNCHANGED <<server_processes, server_ports, error_event, error_queue,
                   socket_profiler_event_queue, started_event, port_value,
                   net, file, ret>>

\* Mutant of StartRegister: started_event.wait() is left out.
StartRegisterNoWait ==
    /\ ctl.pc = "start_wait"
    /\ server_processes' = Append(server_processes, ctl.matched)
    /\ server_ports' = Append(server_ports, port_value[ctl.matched])
    /\ Return(ctl, 0, port_value[ctl.matched])
    /\ UNCHANGED <<next_gateway_worker_id, error_event, error_queue,
                   socket_profiler_event_queue, started_event, port_value,
                   proc, worker, net, file>>

\* Lines 107-111: started_event.wait() returns; register process and port.
StartRegister ==
    /\ ctl.pc = "start_wait"
    /\ started_event[ctl.matched]
    /\ server_processes' = Append(server_processes, ctl.matched)
    /\ server_ports' = Append(server_ports, port_value[ctl.matched])
    /\ Return(ctl, 0, port_value[ctl.matched])
    /\ UNCHANGED <<next_gateway_worker_id, error_event, error_queue,
                   socket_profiler_event_queue, started_event, port_value,
                   proc, worker, net, file>>

\* Mutant of Interrupt: the interrupt goes to the whole process group, so
\* every running worker with a handler has its exit_flag set.
InterruptGroup(m) ==
    /\ worker' = [w \in W |->
                    IF proc[w] = "running" /\ worker[w].handler
                    THEN [worker[w] EXCEPT !.exit_flag = TRUE] ELSE worker[w]]
    /\ UNCHANGED <<proc, net>>

\* os.kill(pid, SIGINT) reaching process m: the installed handler sets
\* exit_flag; without one the interrupt ends the process.
Interrupt(m) ==
    IF proc[m] # "running" THEN UNCHANGED <<proc, worker, net>>
    ELSE IF worker[m].handler
    THEN /\ worker' = [worker EXCEPT ![m].exit_flag = TRUE]
         /\ UNCHANGED <<proc, net>>
    ELSE /\ worker' = [worker EXCEPT ![m] = Ended(@, "killed")]
         /\ net' = [net EXCEPT ![m] = Dropped(@)]
         /\ proc' = [proc EXCEPT ![m] = "zombie"]

\* Lines 114-122 of stop_server(port), run in call frame c: look the port up,
\* raise ValueError when absent, else send SIGINT to the matched process.
StopServerKill(c, port) ==
    LET matched_process == Match(server_ports, server_processes, port) IN
    IF matched_process = NoProc
    THEN /\ Return(c, port, "ValueError")
         /\ UNCHANGED <<proc, worker, net>>
    ELSE IF proc[matched_process] = "reaped"
    THEN \* os.kill on a pid that no longer exists
         /\ Return(c, port, "ProcessLookupError")
         /\ UNCHANGED <<proc, worker, net>>
    ELSE /\ Interrupt(matched_process)
         /\ ctl' = [c EXCEPT !.pc = "stop_join", !.matched = matched_process,
                             !.port = port,
                             !.stopped = @ \cup {matched_process}]
         /\ ret' = ret

\* stop_server(port) called by the controller.
StopServer(port) ==
    /\ ctl.pc = "idle" /\ ctl.ncalls < MaxCalls
    /\ StopServerKill(Begin("stop_server"), port)
    /\ UNCHANGED <<server_processes, server_ports, next_gateway_worker_id,
                   error_event, error_queue, socket_profiler_event_queue,
                   started_event, port_value, file>>

\* Line 123: matched_process.join(30) returns, the worker having exited (it is
\* then reaped) or the timeout having run out.
StopJoin ==
    /\ ctl.pc = "stop_join"
    /\ proc' = [proc EXCEPT ![ctl.matched] = IF @ = "zombie" THEN "reaped" ELSE @]
    /\ ctl' = [ctl EXCEPT !.pc = "stop_term"]
    /\ UNCHANGED <<server_processes, server_ports, next_gateway_worker_id,
                   error_event, error_queue, socket_profiler_event_queue,
                   started_event, port_value, worker, net, file, ret>>

\* Process.terminate(): SIGTERM is sent unless the process's exit status has
\* been collected already (its returncode is set).
TerminateSends(p) == p # "reaped"

\* Mutant of StopTerminate: SIGTERM is recorded as sent to the matched process
\* whether or not it has been joined.
StopTerminateAlways ==
    /\ ctl.pc = "stop_term"
    /\ LET m == ctl.matched
           c == [ctl EXCEPT !.sigterm = @ \cup {m}]
       IN
       /\ IF proc[m] = "running"
          THEN /\ proc' = [proc EXCEPT ![m] = "zombie"]
               /\ worker' = [worker EXCEPT ![m] = Ended(@, "killed")]
               /\ net' = [net EXCEPT ![m] = Dropped(@)]
          ELSE UNCHANGED <<proc, worker, net>>
       /\ server_processes' = Remove(server_processes, m)
       /\ server_ports' = Remove(server_ports, ctl.port)
       /\ IF ctl.op = "stop_servers"
          THEN ctl' = [c EXCEPT !.pc = "all_iter"] /\ ret' = ret
          ELSE Return(c, ctl.port, "ok")
    /\ UNCHANGED <<next_gateway_worker_id, error_event, error_queue,
                   socket_profiler_event_queue, started_event, port_value,
                   file>>

\* Lines 124-128: terminate() (SIGTERM, which ends a process still running),
\* remove the process and the port from the registry, return.
StopTerminate ==
    /\ ctl.pc = "stop_term"
    /\ LET m == ctl.matched
           c == [ctl EXCEPT !.sigterm =
                    IF TerminateSends(proc[m]) THEN @ \cup {m} ELSE @]
       IN
       /\ IF proc[m] = "running"
          THEN /\ proc' = [proc EXCEPT ![m] = "zombie"]
               /\ worker' = [worker EXCEPT ![m] = Ended(@, "killed")]
               /\ net' = [net EXCEPT ![m] = Dropped(@)]
          ELSE UNCHANGED <<proc, worker, net>>
       /\ server_processes' = Remove(server_processes, m)
       /\ server_ports' = Remove(server_ports, ctl.port)
       /\ IF ctl.op = "stop_servers"
          THEN ctl' = [c EXCEPT !.pc = "all_iter"] /\ ret' = ret
          ELSE Return(c, ctl.port, "ok")
    /\ UNCHANGED <<next_gateway_worker_id, error_event, error_queue,
                   socket_profiler_event_queue, started_event, port_value,
                   file>>

\* Line 130: stop_servers() / stop_workers() is called.
StopServers ==
    /\ ctl.pc = "idle" /\ ctl.ncalls < MaxCalls
    /\ ctl' = [Begin("stop_servers") EXCEPT !.pc = "all_iter"]
    /\ UNCHANGED <<server_processes, server_ports, next_gateway_worker_id,
                   error_event, error_queue, socket_profiler_event_queue,
                   started_event, port_value, proc, worker, net, file, ret>>

\* Lines 131-134: the list iterator of `for port in self.server_ports` yields
\* the element at its index, if the list still has one, and stop_server is
\* called on it; otherwise the loop ends and the two assertions run.
StopServersIter ==
    /\ ctl.pc = "all_iter"
    /\ IF ctl.idx < Len(server_ports)
       THEN StopServerKill([ctl EXCEPT !.idx = @ + 1], server_ports[ctl.idx + 1])
       ELSE /\ Return(ctl, 0, IF Len(server_ports) = 0 /\ Len(server_processes) = 0
                              THEN "ok" ELSE "AssertionError")
            /\ UNCHANGED <<proc, worker, net>>
    /\ UNCHANGED <<server_processes, server_ports, next_gateway_worker_id,
                   error_event, error_queue, socket_profiler_event_queue,
                   started_event, port_value, file>>

\* -------------------------------- start_server called from several threads
\* Thread t's call of start_server, step by step.  The call has its own
\* started_event and port_value and forks its own process, all indexed by t;
\* the worker id it hands to the process is its local gateway_id.

\* Line 103: gateway_id = self.next_gateway_worker_id.
ThreadTakeId(t) ==
    /\ ctl.threads[t].pc = "idle"
    /\ ctl' = [ctl EXCEPT !.threads[t].gateway_id = next_gateway_worker_id,
                          !.threads[t].pc = "increment"]
    /\ UNCHANGED <<server_processes, server_ports, next_gateway_worker_id,
                   error_event, error_queue, socket_profiler_event_queue,
                   started_event, port_value, proc, worker, net, file, ret>>

\* Line 104: self.next_gateway_worker_id += 1.
ThreadIncrement(t) ==
    /\ ctl.threads[t].pc = "increment"
    /\ next_gateway_worker_id' = next_gateway_worker_id + 1
    /\ ctl' = [ctl EXCEPT !.threads[t].pc = "fork"]
    /\ UNCHANGED <<server_processes, server_ports, error_event, error_queue,
                   socket_profiler_event_queue, started_event, port_value,
                   proc, worker, net, file, ret>>

\* Lines 105-106: p = Process(...); p.start().
ThreadFork(t) ==
    /\ ctl.threads[t].pc = "fork"
    /\ proc' = [Cleanup(proc) EXCEPT ![t] = "running"]
    /\ worker' = [worker EXCEPT ![t].pc = "bind"]
    /\ ctl' = [ctl EXCEPT !.threads[t].pc = "wait"]
    /\ UNCHANGED <<server_processes, server_ports, next_gateway_worker_id,
                   error_event, error_queue, socket_profiler_event_queue,
                   started_event, port_value, net, file, ret>>

\* Lines 107-108: started_event.wait() returns; self.server_processes.append(p).
ThreadAppendProcess(t) ==
    /\ ctl.threads[t].pc = "wait"
    /\ started_event[t]
    /\ server_processes' = Append(server_processes, t)
    /\ ctl' = [ctl EXCEPT !.threads[t].pc = "append_port"]
    /\ UNCHANGED <<server_ports, next_gateway_worker_id, error_event,
                   error_queue, socket_profiler_event_queue, started_event,
                   port_value, proc, worker, net, file, ret>>

\* Line 109: self.server_ports.append(port_value.value).
ThreadAppendPort(t) ==
    /\ ctl.threads[t].pc = "append_port"
    /\ server_ports' = Append(server_ports, port_value[t])
    /\ ctl' = [ctl EXCEPT !.threads[t].pc = "return"]
    /\ UNCHANGED <<server_processes, next_gateway_worker_id, error_event,
                   error_queue, socket_profiler_event_queue, started_event,
                   port_value, proc, worker, net, file, ret>>

\* Line 111: return port_value.value.
ThreadReturn(t) ==
    /\ ctl.threads[t].pc = "return"
    /\ ctl' = [ctl EXCEPT !.threads[t].res = port_value[t],
                          !.threads[t].pc = "done"]
    /\ UNCHANGED <<server_processes, server_ports, next_gateway_worker_id,
                   error_event, error_queue, socket_profiler_event_queue,
                   started_event, port_value, proc, worker, net, file, ret>>

\* ---------------------------------------------------------- specification
WorkerStep(w) ==
    \/ Bind(w) \/ InstallHandler(w) \/ Listen(w) \/ Accept(w) \/ LoopTest(w)
    \/ RecvHeader(w) \/ RecvInto(w) \/ EndPayload(w) \/ WriteAttempt(w)
    \/ ExceptPut(w) \/ ExceptSet(w) \/ Close(w)

Next ==
    \/ StartServer
    \/ StartRegister
    \/ \E port \in Ports : StopServer(port)
    \/ StopJoin
    \/ StopTerminate
    \/ StopServers
    \/ StopServersIter
    \/ \E w \in W : Bind(w)
    \/ \E w \in W : InstallHandler(w)
    \/ \E w \in W : Listen(w)
    \/ \E w \in W : Accept(w)
    \/ \E w \in W : LoopTest(w)
    \/ \E w \in W : RecvHeader(w)
    \/ \E w \in W : RecvInto(w)
    \/ \E w \in W : EndPayload(w)
    \/ \E w \in W : WriteAttempt(w)
    \/ \E w \in W : ExceptPut(w)
    \/ \E w \in W : ExceptSet(w)
    \/ \E w \in W : Close(w)
    \/ \E w \in W : PeerConnect(w)
    \/ \E w \in W : PeerSendChunk(w)
    \/ \E w \in W : PeerClose(w)

Spec == Init /\ [][Next]_vars

\* Fairness: a worker process that can take a step eventually takes one (the
\* OS schedules every runnable process).  Peers and the controller are free
\* to stay silent.
FairSpec == Spec /\ \A w \in W : WF_vars(WorkerStep(w))

\* The receiver used with a single worker: start_server is called once.
StartServerOnce == next_gateway_worker_id = 0 /\ StartServer

NextSolo ==
    \/ StartServerOnce
    \/ StartRegister
    \/ \E port \in Ports : StopServer(port)
    \/ StopJoin
    \/ StopTerminate
    \/ StopServers
    \/ StopServersIter
    \/ \E w \in W : Bind(w)
    \/ \E w \in W : InstallHandler(w)
    \/ \E w \in W : Listen(w)
    \/ \E w \in W : Accept(w)
    \/ \E w \in W : LoopTest(w)
    \/ \E w \in W : RecvHeader(w)
    \/ \E w \in W : RecvInto(w)
    \/ \E w \in W : EndPayload(w)
    \/ \E w \in W : WriteAttempt(w)
    \/ \E w \in W : ExceptPut(w)
    \/ \E w \in W : ExceptSet(w)
    \/ \E w \in W : Close(w)
    \/ \E w \in W : PeerConnect(w)
    \/ \E w \in W : PeerSendChunk(w)
    \/ \E w \in W : PeerClose(w)

SoloSpec == Init /\ [][NextSolo]_vars

\* The receiver with peers that connect and close but send no chunk: the
\* control plane with every worker, without payload traffic.
CtlWorkerStep(w) ==
    \/ Bind(w) \/ InstallHandler(w) \/ Listen(w) \/ Accept(w) \/ LoopTest(w)
    \/ RecvHeader(w) \/ ExceptPut(w) \/ ExceptSet(w) \/ Close(w)

NextCtl ==
    \/ StartServer
    \/ StartRegister
    \/ \E port \in Ports : StopServer(port)
    \/ StopJoin
    \/ StopTerminate
    \/ StopServers
    \/ StopServersIter
    \/ \E w \in W : Bind(w)
    \/ \E w \in W : InstallHandler(w)
    \/ \E w \in W : Listen(w)
    \/ \E w \in W : Accept(w)
    \/ \E w \in W : LoopTest(w)
    \/ \E w \in W : RecvHeader(w)
    \/ \E w \in W : ExceptPut(w)
    \/ \E w \in W : ExceptSet(w)
    \/ \E w \in W : Close(w)
    \/ \E w \in W : PeerConnect(w)
    \/ \E w \in W : PeerClose(w)

CtlSpec == Init /\ [][NextCtl]_vars

FairCtlSpec == CtlSpec /\ \A w \in W : WF_vars(CtlWorkerStep(w))

\* Fairness for a stop in progress as well: join(30) returns after 30 s at
\* the latest, and terminate() and the removals follow it.
FairStopSpec == FairCtlSpec /\ WF_vars(StopJoin) /\ WF_vars(StopTerminate)

\* The receiver with a single worker, with peers that connect and close but
\* send no chunk, and with further peers that connect to the worker's port
\* while it serves its first connection.
NextAccept ==
    \/ StartServerOnce
    \/ StartRegister
    \/ \E port \in Ports : StopServer(port)
    \/ StopJoin
    \/ StopTerminate
    \/ StopServers
    \/ StopServersIter
    \/ \E w \in W : Bind(w)
    \/ \E w \in W : InstallHandler(w)
    \/ \E w \in W : Listen(w)
    \/ \E w \in W : Accept(w)
    \/ \E w \in W : LoopTest(w)
    \/ \E w \in W : RecvHeader(w)
    \/ \E w \in W : ExceptPut(w)
    \/ \E w \in W : ExceptSet(w)
    \/ \E w \in W : Close(w)
    \/ \E w \in W : PeerConnect(w)
    \/ \E w \in W : PeerConnectAgain(w)
    \/ \E w \in W : PeerClose(w)

AcceptSpec == Init /\ [][NextAccept]_vars

\* The receiver whose workers may fail while they set up their socket; peers
\* connect and close but send no chunk.
NextStartup ==
    \/ StartServer
    \/ StartRegister
    \/ \E port \in Ports : StopServer(port)
    \/ StopJoin
    \/ StopTerminate
    \/ StopServers
    \/ StopServersIter
    \/ \E w \in W : Bind(w)
    \/ \E w \in W : StartupFails(w)
    \/ \E w \in W : InstallHandler(w)
    \/ \E w \in W : Listen(w)
    \/ \E w \in W : Accept(w)
    \/ \E w \in W : LoopTest(w)
    \/ \E w \in W : RecvHeader(w)
    \/ \E w \in W : ExceptPut(w)
    \/ \E w \in W : ExceptSet(w)
    \/ \E w \in W : Close(w)
    \/ \E w \in W : PeerConnect(w)
    \/ \E w \in W : PeerClose(w)

StartupSpec == Init /\ [][NextStartup]_vars

\* The receiver on which every thread of W calls start_server once, the calls
\* running concurrently; the workers come up and wait for a connection.
NextConcurrent ==
    \/ \E t \in W : ThreadTakeId(t)
    \/ \E t \in W : ThreadIncrement(t)
    \/ \E t \in W : ThreadFork(t)
    \/ \E t \in W : ThreadAppendProcess(t)
    \/ \E t \in W : ThreadAppendPort(t)
    \/ \E t \in W : ThreadReturn(t)
    \/ \E w \in W : Bind(w)
    \/ \E w \in W : InstallHandler(w)
    \/ \E w \in W : Listen(w)

ConcurrentSpec == Init /\ [][NextConcurrent]_vars

\* The receiver whose workers write into one chunk store of StoreCapacity
\* bytes: every start_server call brings up a worker, every peer sends one
\* whole chunk, nothing is stopped.
NextStore ==
    \/ StartServer
    \/ StartRegister
    \/ \E w \in W : Bind(w)
    \/ \E w \in W : InstallHandler(w)
    \/ \E w \in W : Listen(w)
    \/ \E w \in W : Accept(w)
    \/ \E w \in W : LoopTest(w)
    \/ \E w \in W : RecvHeader(w)
    \/ \E w \in W : RecvInto(w)
    \/ \E w \in W : EndPayload(w)
    \/ \E w \in W : StoreWrite(w)
    \/ \E w \in W : ExceptPut(w)
    \/ \E w \in W : ExceptSet(w)
    \/ \E w \in W : Close(w)
    \/ \E w \in W : PeerConnect(w)
    \/ \E w \in W : PeerSendWhole(w)

StoreSpec == Init /\ [][NextStore]_vars

\* The receiver with a single worker whose peer sends a batch of two chunks
\* back to back and may close the connection; nothing is stopped.
NextBatch ==
    \/ StartServerOnce
    \/ StartRegister
    \/ \E w \in W : Bind(w)
    \/ \E w \in W : InstallHandler(w)
    \/ \E w \in W : Listen(w)
    \/ \E w \in W : Accept(w)
    \/ \E w \in W : LoopTest(w)
    \/ \E w \in W : RecvHeader(w)
    \/ \E w \in W : RecvInto(w)
    \/ \E w \in W : EndPayload(w)
    \/ \E w \in W : WriteAttempt(w)
    \/ \E w \in W : ExceptPut(w)
    \/ \E w \in W : ExceptSet(w)
    \/ \E w \in W : Close(w)
    \/ \E w \in W : PeerConnect(w)
    \/ \E w \in W : PeerSendBatch(w)
    \/ \E w \in W : PeerClose(w)

BatchSpec == Init /\ [][NextBatch]_vars

\* ------------------------------------------------------------------ claims
\* The last completed public call was `op` and no call has begun since.
JustReturned(op) == ctl.pc = "idle" /\ ret.op = op /\ ret.n = ctl.ncalls

\* C1: after stop_servers returns the registry is empty (server_ports and
\* server_processes have length 0) and no assertion has failed.
C1_StopAllEmptiesRegistry ==
    JustReturned("stop_servers") =>
        /\ ret.res = "ok"
        /\ Len(server_ports) = 0
        /\ Len(server_processes) = 0

\* C2: stop_servers issues a stop to every worker that was registered when it
\* was called.
C2_StopAllStopsEveryWorker ==
    JustReturned("stop_servers") =>
        \A i \in 1 .. Len(ctl.at_call) : ctl.at_call[i] \in ctl.stopped

\* The peer has closed with part of the declared payload unsent and nothing
\* in flight: every further read returns 0 bytes.
ShortRead(w) ==
    /\ Running(w) /\ worker[w].pc = "recv_payload"
    /\ worker[w].socket_data_len > 0
    /\ net[w].stream = <<>> /\ net[w].peer = "closed"

\* C3: a read that finds the stream closed before data_len bytes have come
\* ends the payload loop (with an error), and the chunk is not recorded as
\* received.
C3_ShortReadEndsLoop ==
    [][\A w \in W :
          (ShortRead(w)
             /\ socket_profiler_event_queue'[w] # socket_profiler_event_queue[w])
          => (worker'[w].pc # "recv_payload" /\ worker'[w].chunks_received = <<>>)
      ]_vars

\* Worker w takes the step that ends its handling of the current chunk, all
\* of whose payload has been received.
FinishesChunk(w) ==
    /\ worker[w].pc = "write" /\ worker'[w].pc # "write"
    /\ proc'[w] = "running"
    /\ worker[w].chunk_received_size = worker[w].chunk_header.data_len

\* C4: when recv_chunks has finished handling a chunk whose data_len payload
\* bytes all arrived, the chunk's file holds exactly those bytes.
C4_ExactByteDelivery ==
    [][\A w \in W :
          FinishesChunk(w) =>
             file'[worker[w].chunk_header.chunk_id]
                = Payload(worker[w].chunk_header.data_len)
      ]_vars

\* C5: after a chunk with n_chunks_left_on_socket = 0 has been received and
\* persisted in full, recv_chunks returns normally to the worker's loop: no
\* exception is raised, the chunk is recorded as received.
C5_BatchEndReturns ==
    [][\A w \in W :
          (FinishesChunk(w)
             /\ worker[w].chunk_header.n_chunks_left_on_socket = 0
             /\ Len(file'[worker[w].chunk_header.chunk_id])
                   >= worker[w].chunk_header.data_len)
          => (worker'[w].pc = "loop" /\ worker'[w].exc = "none"
              /\ worker'[w].chunks_received = <<worker[w].chunk_header.chunk_id>>)
      ]_vars

\* A worker in its Active state: connection accepted and not yet closed.
Active(w) == Running(w) /\ worker[w].conn = "open"

\* C6: once the FaultSignal is set, every worker in its Active state
\* eventually leaves its loop, closes its connection and exits.
C6_FaultFanOut ==
    \A w \in W : (error_event /\ Active(w)) ~> ~Running(w)

\* Worker w itself takes a step that moves it on (it is not killed).
OwnStep(w) == worker'[w].pc # worker[w].pc /\ worker'[w].pc # "killed"

\* C7: when recv_chunks raises, the worker appends one entry to the error
\* queue, then sets the FaultSignal, then leaves its loop without calling
\* recv_chunks again, and closes its connection.
C7_ErrorPropagation ==
    [][\A w \in W :
          /\ (worker[w].exc = "none" /\ worker'[w].exc # "none")
                => worker'[w].pc = "except"
          /\ (worker[w].pc = "except" /\ OwnStep(w))
                => /\ Len(error_queue') = Len(error_queue) + 1
                   /\ worker'[w].pc = "except_set"
          /\ (worker[w].pc = "except_set" /\ OwnStep(w))
                => /\ error_event' /\ worker'[w].exit_flag
                   /\ error_queue' = error_queue
                   /\ worker'[w].pc = "loop"
          /\ (worker[w].pc = "loop" /\ worker[w].exc # "none" /\ OwnStep(w))
                => /\ worker'[w].pc = "close"
                   /\ error_queue' = error_queue
          /\ (worker[w].pc = "close" /\ OwnStep(w))
                => /\ worker'[w].conn = "closed" /\ proc'[w] # "running"
                   /\ error_queue' = error_queue
      ]_vars

\* A worker whose recv_chunks raised has reported and is about to close.
C7_Witness ==
    \E w \in W : /\ worker[w].pc = "close" /\ worker[w].exc # "none"
                 /\ error_event /\ Len(error_queue) = 1

\* C8: once error_event is set it stays set.
C8_FaultSignalNeverCleared == [][error_event => error_event']_vars

\* The FaultSignal is set and a stop_servers call has since been completed.
C8_Witness ==
    /\ error_event /\ JustReturned("stop_servers")
    /\ \A w \in W : proc[w] # "running"

\* Some registered worker owns `port`.
Registered(port) == \E i \in 1 .. Len(server_ports) : server_ports[i] = port

\* C9: stop_server on a port no registered worker owns raises ValueError at
\* once and changes nothing: registry, FaultSignal, ErrorReport and workers
\* stay as they were and no signal is sent.
C9_StopUnknownPort ==
    [][/\ (ctl.pc = "idle" /\ ret'.n # ret.n /\ ret'.op = "stop_server"
             /\ ~Registered(ret'.arg))
          => /\ ret'.res = "ValueError"
             /\ UNCHANGED <<server_ports, server_processes, error_event,
                            error_queue, proc, worker, net, file>>
       /\ (ctl.pc = "idle" /\ ctl'.pc = "stop_join" /\ ctl'.op = "stop_server")
          => Registered(ctl'.port)
      ]_vars

\* stop_server has raised ValueError while a worker was running.
C9_Witness ==
    /\ JustReturned("stop_server") /\ ret.res = "ValueError"
    /\ \E w \in W : Running(w)

\* C10: every stop_server call on a registered port ends with that worker's
\* record removed from the registry.
C10_StopRemovesRecord ==
    [][(ret'.n # ret.n /\ ret'.op = "stop_server" /\ Registered(ret'.arg))
          => /\ Len(server_ports') = Len(server_ports) - 1
             /\ Len(server_processes') = Len(server_processes) - 1
             /\ ~\E i \in 1 .. Len(server_processes') :
                    server_processes'[i] = ctl.matched
      ]_vars

\* C11: after a successful stop_server(P), and before any other call, the
\* registry lookup of P finds no process (a second stop_server(P) would raise
\* ValueError) and no worker stopped by the call holds P bound.
C11_PortLifecycle ==
    (JustReturned("stop_server") /\ ret.res = "ok") =>
        /\ Match(server_ports, server_processes, ret.arg) = NoProc
        /\ \A m \in ctl.stopped : worker[m].sock # ret.arg

\* C12: start_server returns only when its worker has bound its socket,
\* published the port, installed signal_handler and begun to listen; it
\* returns that port (never 0) and has appended the port and the process to
\* the registry.  It can return while no peer has connected.
C12_StartReturnsReady ==
    [][LET m == ctl.matched IN
       /\ (ctl.pc = "start_wait" /\ ctl'.pc = "idle")
          => /\ Running(m)
             /\ worker[m].sock # 0
             /\ port_value[m] = worker[m].sock
             /\ worker[m].handler
             /\ worker[m].pc \notin {"unborn", "bind", "handler", "listen"}
             /\ ret'.op = "start_server" /\ ret'.n = ctl.ncalls
             /\ ret'.res = worker[m].sock /\ ret'.res # 0
             /\ server_ports' = Append(server_ports, ret'.res)
             /\ server_processes' = Append(server_processes, m)
       /\ (ctl.pc = "start_wait" /\ worker[m].pc = "accept"
             /\ net[m].peer = "none")
          => ENABLED StartRegister
      ]_vars

\* start_server has returned the port of a listening worker to which no peer
\* has connected.
C12_Witness ==
    /\ JustReturned("start_server")
    /\ \E w \in W : /\ Running(w) /\ worker[w].pc = "accept"
                     /\ net[w].peer = "none"
                     /\ ret.res = worker[w].sock /\ ret.res # 0
                     /\ server_processes[Len(server_processes)] = w
                     /\ server_ports[Len(server_ports)] = ret.res

\* C13: when concurrent start_server calls have all returned, the calls hold
\* distinct worker ids, each has returned the port of its own worker, and the
\* registry holds one record per call whose i-th port is the port of its
\* i-th process.
C13_ConcurrentStartSafe ==
    (\A t \in W : ctl.threads[t].pc = "done") =>
        /\ \A t, u \in W :
              t # u => ctl.threads[t].gateway_id # ctl.threads[u].gateway_id
        /\ \A t \in W : ctl.threads[t].res = worker[t].sock
        /\ Len(server_processes) = MaxWorkers
        /\ Len(server_ports) = MaxWorkers
        /\ \A i \in 1 .. MaxWorkers :
              server_ports[i] = worker[server_processes[i]].sock

\* C14: a stop_server call on a registered port sends SIGINT first, then
\* joins, then sends SIGTERM, and SIGTERM goes out only to a worker that had
\* not exited when the join returned: a worker that exited within the join is
\* sent no SIGTERM.  The join itself ends no process.
C14_StopEscalationOrder ==
    [][LET m == ctl.matched IN
       /\ (ctl.pc = "idle" /\ ctl'.op = "stop_server" /\ ctl'.pc # "idle")
          => /\ ctl'.pc = "stop_join"
             /\ Registered(ctl'.port)
             /\ ctl'.stopped = {ctl'.matched} /\ ctl'.sigterm = {}
             /\ Running(ctl'.matched)
                   => \/ worker'[ctl'.matched].exit_flag
                      \/ proc'[ctl'.matched] = "zombie"
       /\ (ctl.op = "stop_server" /\ ctl.pc = "stop_join" /\ ctl' # ctl)
          => /\ ctl'.pc = "stop_term"
             /\ ctl'.stopped = {m} /\ ctl'.sigterm = {}
             /\ proc'[m] = (IF proc[m] = "zombie" THEN "reaped" ELSE proc[m])
       /\ (ctl.op = "stop_server" /\ ctl.pc = "stop_term" /\ ctl' # ctl)
          => /\ ctl'.pc = "idle"
             /\ proc[m] = "reaped" => ctl'.sigterm = {}
             /\ ctl'.sigterm \subseteq {m}
             /\ proc[m] = "running" => (ctl'.sigterm = {m} /\ proc'[m] # "running")
       /\ ctl'.sigterm # ctl.sigterm
          => (ctl.pc = "stop_term" \/ ctl'.sigterm = {})
      ]_vars

\* stop_server has returned after its worker, interrupted while serving a
\* connection, left its loop and exited within the join: no SIGTERM was sent.
C14_Witness ==
    /\ JustReturned("stop_server") /\ ret.res = "ok"
    /\ ~error_event
    /\ ctl.sigterm = {}
    /\ \E m \in ctl.stopped : worker[m].pc = "done" /\ worker[m].conn = "closed"

\* C15: a pass of the write loop made while the store has room for fewer than
\* data_len * max_pending_chunks bytes writes nothing to the chunk's file and
\* leaves the worker waiting in the loop, without an error.
C15_Backpressure ==
    [][\A w \in W : \A remaining \in RemainingBytes :
          (/\ WriteAttemptWith(w, remaining)
           /\ remaining < worker[w].chunk_header.data_len * max_pending_chunks)
          => /\ file' = file
             /\ worker'[w].pc = "write" /\ worker'[w].exc = "none"
      ]_vars

\* C16: a pass of the write loop whose write fails for lack of room raises
\* nothing out of recv_chunks: the worker stays in the loop with the chunk's
\* bytes in hand, ready to write them when room returns; nothing is put on
\* the error queue and error_event stays as it was.
C16_BackpressureRecovery ==
    [][\A w \in W : \A remaining \in RemainingBytes :
          (/\ WriteAttemptWith(w, remaining)
           /\ remaining < Len(worker[w].to_write))
          => /\ worker'[w].pc = "write"
             /\ worker'[w].exc = "none"
             /\ worker'[w].to_write = worker[w].to_write
             /\ error_queue' = error_queue
             /\ error_event' = error_event
      ]_vars

C19_EmptyChunkValid ==
    [][\A w \in W :
          LET h == worker[w].chunk_header IN
          /\ (/\ worker[w].pc = "recv_header" /\ worker'[w].pc = "recv_payload"
              /\ worker'[w].chunk_header.data_len = 0)
                => /\ file'[worker'[w].chunk_header.chunk_id] = <<>>
                   /\ worker'[w].socket_data_len = 0
          /\ (worker[w].pc = "recv_payload" /\ h.data_len = 0 /\ OwnStep(w))
                => /\ worker'[w].pc = "write"
                   /\ socket_profiler_event_queue' = socket_profiler_event_queue
          /\ (worker[w].pc = "write" /\ h.data_len = 0 /\ OwnStep(w))
                => /\ worker'[w].exc = "none"
                   /\ file'[h.chunk_id] = <<>>
                   /\ worker'[w].chunks_received
                         = Append(worker[w].chunks_received, h.chunk_id)
                   /\ worker'[w].pc = IF h.n_chunks_left_on_socket = 0
                                      THEN "loop" ELSE "recv_header"
      ]_vars

\* Worker w is between batches: the last header it read closed its batch
\* (n_chunks_left_on_socket = 0), or it has read no header yet.
AtBatchBoundary(w) == worker[w].chunk_header.n_chunks_left_on_socket = 0

\* C20: a worker whose header read failed between batches ends its connection
\* without setting error_event.
C20_BoundaryHeaderFailure ==
    [][\A w \in W :
          (worker[w].exc = "HeaderError" /\ AtBatchBoundary(w) /\ OwnStep(w))
          => error_event' = error_event
      ]_vars

\* The ports held in the registry.
RegistryPorts == {server_ports[i] : i \in 1 .. Len(server_ports)}

\* C21: whenever no public operation is in progress, the ports in the
\* registry are exactly the ports bound by the sockets of live workers.
C21_PoolInvariant ==
    ctl.pc = "idle" => RegistryPorts = BoundPorts

\* C22: a worker accepts one connection in its life: its connection opens
\* only by the accept at line 90, a worker that has a connection never waits
\* in accept again, and a further connection queued on its port leaves the
\* queue only when the worker's process ends.
C22_SingleAccept ==
    [][\A w \in W :
          /\ (worker'[w].conn = "open" /\ worker[w].conn # "open")
                => (worker[w].pc = "accept" /\ worker[w].conn = "none")
          /\ (worker[w].conn # "none" /\ Running(w))
                => worker'[w].pc # "accept"
          /\ net'[w].backlog < net[w].backlog => proc'[w] # "running"
      ]_vars

\* A second connection waits on the port of a worker whose recv_chunks has
\* failed on the first connection and which is about to exit.
C22_Witness ==
    \E w \in W : /\ worker[w].pc = "close" /\ worker[w].exc # "none"
                 /\ worker[w].conn = "open"
                 /\ net[w].backlog > 0

\* C23: the entries of the error queue tell their workers apart.  A worker
\* puts at most one entry in its life (it leaves its loop after the first), so
\* any two entries come from different workers and must differ.
C23_ErrorEntriesIdentifyWorker ==
    \A i, j \in 1 .. Len(error_queue) :
        i # j => error_queue[i] # error_queue[j]

\* C24: a worker begins a header read only when its exit_flag is unset, goes
\* on with a payload it is reading whatever the flag, and, when the flag was
\* set while it received a chunk, finishes that chunk (the chunk is stored
\* and recorded as received, no error) and then reads no further header.
C24_StopCheckPoints ==
    [][\A w \in W :
          LET h == worker[w].chunk_header IN
          /\ (worker'[w].pc = "recv_header" /\ worker[w].pc # "recv_header")
                => ~worker[w].exit_flag
          /\ (worker[w].pc = "recv_payload" /\ OwnStep(w))
                => worker'[w].pc = "write"
          /\ (/\ worker[w].pc = "write" /\ worker[w].exit_flag /\ OwnStep(w)
              /\ file'[h.chunk_id] = Payload(h.data_len))
                => /\ worker'[w].exc = "none"
                   /\ worker'[w].chunks_received
                         = Append(worker[w].chunks_received, h.chunk_id)
                   /\ worker'[w].pc # "recv_header"
      ]_vars

C26_GracefulExit ==
    \A w \in W :
        (Active(w) /\ worker[w].exit_flag /\ worker[w].exc = "none")
            ~> (worker[w].pc = "done")

\* C27: within one connection chunks are handled one after the other, in the
\* order of their headers: a header is read only when the chunk read before
\* it has been recorded, its file holding its whole payload; and the step
\* that ends the handling of a chunk whose payload has arrived and been
\* written in full adds the chunk's id to chunks_received, so that the ids
\* recorded are the ids of the headers read, in order.
C27_SequentialInOrder ==
    [][\A w \in W :
          LET h == worker[w].chunk_header
              recorded == worker[w].chunks_received
          IN
          /\ (worker[w].pc = "recv_header" /\ worker'[w].pc = "recv_payload"
                /\ h # NoHeader)
             => /\ recorded # <<>>
                /\ recorded[Len(recorded)] = h.chunk_id
                /\ file[h.chunk_id] = Payload(h.data_len)
          /\ (FinishesChunk(w) /\ file'[h.chunk_id] = Payload(h.data_len))
             => worker'[w].chunks_received = Append(recorded, h.chunk_id)
      ]_vars

\* C28: the workers never commit more bytes to the chunk store than it can
\* hold: the chunk files together never exceed the store's capacity, and a
\* worker starts writing a chunk only when the store has room for all of it,
\* the room having been checked and reserved before the write.
C28_NoOvercommit ==
    [][/\ StoreUsed' <= StoreCapacity
       /\ \A w \in W :
             (worker[w].pc = "write" /\ OwnStep(w))
             => Len(worker[w].to_write) <= remaining_bytes
      ]_vars

\* Worker w takes a step of its payload loop in which recv_into returns: a
\* sample is put on the profiling queue.
ReadReturns(w) ==
    /\ worker[w].pc = "recv_payload" /\ proc'[w] = "running"
    /\ socket_profiler_event_queue'[w] # socket_profiler_event_queue[w]

\* C29: a read of the payload loop asks for at most min(bytes missing of the
\* chunk, recv_block_size) bytes: what it takes off the connection is no more
\* than the block size and no more than what the chunk still misses, all of
\* it payload bytes, and the header of the next chunk stays on the connection.
C29_BoundedReads ==
    [][\A w \in W :
          LET nbytes == worker'[w].chunk_received_size
                           - worker[w].chunk_received_size
          IN
          ReadReturns(w)
          => /\ nbytes <= recv_block_size
             /\ nbytes <= worker[w].socket_data_len
             /\ \A i \in 1 .. nbytes : net[w].stream[i].kind = "byte"
             /\ net'[w].stream = Drop(net[w].stream, nbytes)
      ]_vars

\* A chunk longer than a block has arrived in two reads, a whole block first
\* and the rest (less than a block) next, and the header of the next chunk is
\* first on the connection.
C29_Witness ==
    \E w \in W :
        /\ Running(w) /\ worker[w].pc = "write"
        /\ worker[w].chunk_header.data_len > recv_block_size
        /\ worker[w].chunk_received_size = worker[w].chunk_header.data_len
        /\ Len(socket_profiler_event_queue[w]) = 2
        /\ socket_profiler_event_queue[w][1].bytes = recv_block_size
        /\ net[w].stream # <<>> /\ Head(net[w].stream).kind = "hdr"

\* C30: every read of a payload puts exactly one sample on the profiling
\* queue, carrying the worker's id, the chunk's id and the bytes received of
\* the chunk so far, and nothing else puts samples; the byte counts of one
\* chunk's samples never decrease; and when the payload of a chunk of at
\* least one byte is complete, the last sample's byte count is data_len.
C30_ProfilingSamples ==
    [][\A w \in W :
          LET h == worker[w].chunk_header
              q == socket_profiler_event_queue[w]
              qn == socket_profiler_event_queue'[w]
          IN
          /\ qn # q
             => /\ worker[w].pc = "recv_payload"
                /\ qn = Append(q, [receiver_id |-> w, chunk_id |-> h.chunk_id,
                                   bytes |-> worker'[w].chunk_received_size])
                /\ (q # <<>> /\ q[Len(q)].chunk_id = h.chunk_id)
                   => qn[Len(qn)].bytes >= q[Len(q)].bytes
          /\ (worker[w].pc = "recv_payload" /\ proc'[w] = "running"
                /\ worker'[w].chunk_received_size # worker[w].chunk_received_size)
             => Len(qn) = Len(q) + 1
          /\ (worker[w].pc = "recv_payload" /\ worker'[w].pc = "write"
                /\ h.data_len > 0)
             => /\ q # <<>>
                /\ q[Len(q)].chunk_id = h.chunk_id
                /\ q[Len(q)].bytes = h.data_len
      ]_vars

\* A chunk longer than a block has arrived whole in three reads of one byte:
\* three samples of this worker and chunk, counting up to data_len.
C30_Witness ==
    \E w \in W :
        LET q == socket_profiler_event_queue[w] IN
        /\ Running(w) /\ worker[w].pc = "write"
        /\ worker[w].chunk_header.data_len > recv_block_size
        /\ Len(q) = 3
        /\ \A i \in 1 .. 3 :
              q[i] = [receiver_id |-> w,
                      chunk_id |-> worker[w].chunk_header.chunk_id,
                      bytes |-> i]

\* C31: start_server always comes to an end: it never waits for the ready
\* event of a worker that can no longer set it.  While the call waits at
\* started_event.wait() with the event unset, its worker process is alive.
C31_StartTerminates ==
    (ctl.pc = "start_wait" /\ ~started_event[ctl.matched])
       => Running(ctl.matched)

\* C32: a worker that is waiting in accept() when the stop request reaches it
\* leaves on its own: the next thing that happens to it is that it closes and
\* exits.  It is not ended by terminate(), and it does not go on to serve a
\* peer that connects later.
C32_StopWhileAccepting ==
    [][\A w \in W :
          (/\ Running(w) /\ worker[w].pc = "accept" /\ worker[w].exit_flag
           /\ worker'[w] # worker[w])
          => worker'[w].pc \in {"close", "done"}
      ]_vars

\* C33: the error report comes before the fault signal: in every state where
\* error_event is set, the error queue holds at least one entry.
C33_ReportBeforeSignal == error_event => Len(error_queue) >= 1

\* Two workers have failed: both entries are on the error queue, the signal
\* is set, and the worker that failed second is about to set it again.
C33_Witness ==
    /\ error_event /\ Len(error_queue) = 2
    /\ \E w \in W : Running(w) /\ worker[w].pc = "except_set"

\* C34: between public calls the two registry lists are aligned: they have
\* the same length, and the port at each index is the port that the process
\* at that index bound, also when a port occurs twice.
C34_RegistryAlignment ==
    ctl.pc = "idle"
    => /\ Len(server_ports) = Len(server_processes)
       /\ \A i \in 1 .. Len(server_ports) :
             server_ports[i] = port_value[server_processes[i]]

\* stop_server has just returned normally for a port that was registered
\* twice: one record of that port is still in the registry.
C34_Witness ==
    /\ JustReturned("stop_server") /\ ret.res = "ok"
    /\ \E i \in 1 .. Len(server_ports) : server_ports[i] = ret.arg

\* C35: stopping one worker touches nothing else.  No step of a stop_server
\* call sets error_event or adds to the error queue; every worker other than
\* the matched one keeps its process, its private state and its connection;
\* and the registry loses the matched worker's record at most, the other
\* records staying in place and in order.  A worker that leaves its loop
\* because of the stop request, having hit no error, reports no error either.
C35_StopIsolated ==
    [][/\ (ctl' # ctl /\ "stop_server" \in {ctl.op, ctl'.op})
          => LET m == IF ctl.pc = "idle" THEN ctl'.matched ELSE ctl.matched IN
             /\ error_event' = error_event
             /\ error_queue' = error_queue
             /\ \A w \in W \ {m} :
                   /\ worker'[w] = worker[w]
                   /\ proc'[w] = proc[w]
                   /\ net'[w] = net[w]
             /\ \A i \in 1 .. Len(server_processes) :
                   server_processes[i] # m
                   => \E j \in 1 .. Len(server_processes') :
                         /\ server_processes'[j] = server_processes[i]
                         /\ server_ports'[j] = server_ports[i]
                         /\ j \in {i, i - 1}
       /\ \A w \in W :
             (/\ Running(w) /\ worker[w].pc = "loop"
              /\ worker[w].exit_flag /\ worker[w].exc = "none"
              /\ worker'[w].pc # "loop")
             => /\ error_event' = error_event
                /\ error_queue' = error_queue
      ]_vars

\* stop_server has just returned normally, having interrupted its worker;
\* nothing has been reported, and another registered worker is still waiting
\* for chunks on its connection.
C35_Witness ==
    /\ JustReturned("stop_server") /\ ret.res = "ok" /\ ctl.stopped # {}
    /\ ~error_event /\ error_queue = <<>>
    /\ \E i \in 1 .. Len(server_processes) :
          LET w == server_processes[i] IN
          /\ w \notin ctl.stopped
          /\ Running(w) /\ worker[w].pc = "recv_header" /\ ~worker[w].exit_flag

\* C36: a worker that has not yet tested its loop condition when error_event
\* is set (a worker started after the signal, in particular) still binds,
\* signals ready and accepts its connection, but its first test of the loop
\* condition fails: it goes on to close the connection and exit, without
\* reading a header, without touching a chunk file and without adding to the
\* error queue.
C36_StartedAfterFault ==
    [][\A w \in W :
          (/\ error_event /\ Running(w)
           /\ worker[w].pc \in {"bind", "handler", "listen", "accept", "loop",
                                "close"}
           /\ worker[w].exc = "none"
           /\ worker'[w] # worker[w])
          => /\ worker'[w].pc \in
                   (CASE worker[w].pc = "bind" -> {"handler", "killed"}
                      [] worker[w].pc = "handler" -> {"handler", "listen", "killed"}
                      [] worker[w].pc = "listen" -> {"listen", "accept", "killed"}
                      [] worker[w].pc = "accept" -> {"accept", "loop", "killed"}
                      [] worker[w].pc = "loop" -> {"loop", "close", "killed"}
                      [] OTHER -> {"close", "done", "killed"})
             /\ worker'[w].pc = "loop"
                   => started_event[w] /\ worker'[w].conn = "open"
             /\ worker'[w].exc = "none"
             /\ error_queue' = error_queue
             /\ file' = file
      ]_vars

\* The first worker failed and had exited before the second start_server
\* call, which reaped it; the second worker, started with error_event set,
\* has accepted a connection, closed it and exited, and the error queue
\* holds the first worker's entry only.
C36_Witness ==
    /\ error_event /\ Len(error_queue) = 1
    /\ ctl.ncalls = 2 /\ next_gateway_worker_id = 2
    /\ proc[0] = "reaped"
    /\ worker[1].pc = "done" /\ worker[1].conn = "closed"

\* The receive accounts of a worker's record wk balance: what has been
\* received and what is missing add up to data_len, neither is negative, and
\* the buffer has data_len bytes.
Balanced(wk) ==
    /\ wk.chunk_received_size + wk.socket_data_len = wk.chunk_header.data_len
    /\ wk.chunk_received_size >= 0 /\ wk.socket_data_len >= 0
    /\ Len(wk.to_write) = wk.chunk_header.data_len

\* C37: all through the payload loop of a chunk and up to the size assertion,
\* chunk_received_size + socket_data_len = data_len with both at least 0;
\* chunk_received_size never decreases; a read is made only while
\* socket_data_len > 0 and the loop is left only when it is 0, so that the
\* buffer never takes more than data_len bytes.
C37_ReceiveAccounting ==
    [][\A w \in W :
          /\ (Running(w) /\ worker[w].pc \in {"recv_payload", "write"})
                => Balanced(worker[w])
          /\ (proc'[w] = "running" /\ worker'[w].pc \in {"recv_payload", "write"})
                => Balanced(worker'[w])
          /\ (worker[w].pc = "recv_payload" /\ worker'[w].pc = "recv_payload")
                => worker'[w].chunk_received_size >= worker[w].chunk_received_size
          /\ (worker[w].pc = "recv_payload" /\ worker'[w].pc = "write")
                => worker[w].socket_data_len = 0
          /\ ReadReturns(w) => worker[w].socket_data_len > 0
      ]_vars

\* A worker in the middle of a chunk longer than a block: a whole block
\* received, one byte missing.
C37_Witness ==
    \E w \in W :
        /\ Running(w) /\ worker[w].pc = "recv_payload"
        /\ worker[w].chunk_received_size = recv_block_size
        /\ worker[w].socket_data_len = 1

\* C38: a worker installs its SIGINT handler before it sets started_event,
\* and start_server registers a worker only once that event is set; so every
\* interrupt that stop_server sends to a running worker finds the handler
\* installed and does nothing but set the worker's exit_flag: the worker is
\* not ended by the interrupt.
C38_HandlerBeforeReady ==
    [][/\ \A w \in W :
             (started_event'[w] /\ ~started_event[w]) => worker[w].handler
       /\ Len(server_processes') > Len(server_processes)
             => /\ started_event[ctl.matched]
                /\ server_processes' = Append(server_processes, ctl.matched)
       /\ (ctl'.pc = "stop_join" /\ ctl.pc # "stop_join"
             /\ proc[ctl'.matched] = "running")
             => LET m == ctl'.matched IN
                /\ worker[m].handler
                /\ worker' = [worker EXCEPT ![m].exit_flag = TRUE]
                /\ proc' = proc /\ net' = net
      ]_vars

\* stop_server has interrupted a running worker, which goes on running with
\* its exit_flag set, and is waiting in join.
C38_Witness ==
    /\ ctl.pc = "stop_join" /\ ctl.matched \in ctl.stopped
    /\ Running(ctl.matched)
    /\ worker[ctl.matched].handler /\ worker[ctl.matched].exit_flag
    /\ worker[ctl.matched].exc = "none"
====
